---- MODULE Spec2Model ----
(***************************************************************************)
(* A model of the photon map (PhotonMap) of the Mitsuba renderer:          *)
(* storePhoton, balance (balanceRecursive, quickPartition,                 *)
(* guarded_partition, leftSubtreeSize), the k-nearest-neighbour search     *)
(* nnSearch, the density estimators and serialization.  Photon positions,  *)
(* directions and normals are integer triples, so the float arithmetic of  *)
(* the code (differences, squares, sums, dot products and comparisons of   *)
(* small integers) is exact.                                               *)
(***************************************************************************)
EXTENDS Integers, Sequences, FiniteSets, TLC

\* ------------------------------------------------------------------------
\* Bounds of the model
\* ------------------------------------------------------------------------
\* largest capacity handed to the constructor
MaxPhotons == 6
\* largest maxSize handed to nnSearch
MaxSize == 2
\* largest searchRadiusSquared handed to nnSearch
MaxRadiusSq == 3
\* largest treeSize handed to leftSubtreeSize on its own
MaxTreeSize == 70
\* longest array of pointers partitioned on its own
MaxLen == 5
\* largest coordinate of a photon partitioned on its own
MaxKey == 2

\* largest capacity of a map the estimators are called on
MaxEstPhotons == 3
\* largest searchRadius handed to an estimator
MaxRadius == 2
\* longest array and largest key where quickPartition is checked to return
MaxTermLen == 4
MaxTermKey == 1
\* largest capacity of a map two threads query at once
MaxConcPhotons == 2

\* positions handed to storePhoton and query points handed to nnSearch
Positions == {<<0, 0, 0>>, <<1, 0, 0>>, <<0, 1, 0>>, <<0, 0, 1>>}
QueryPoints == {<<0, 0, 0>>, <<1, 0, 0>>, <<1, 1, 0>>, <<0, 0, 1>>}

Axes == 0 .. 2

\* the float value no coordinate reaches (the bounds of an empty AABB)
Infinity == 1 + CHOOSE m \in 0 .. 100 :
                  /\ \A q \in Positions : \A a \in Axes : q[a + 1] <= m
                  /\ \A m2 \in 0 .. (m - 1) :
                        \E q \in Positions : \E a \in Axes : q[a + 1] > m2

\* the axis field of a photon that balance has not written
NoAxis == 0 - 1

\* a slot of the photon array that no code has written
Uninit == [pos |-> <<>>, axis |-> NoAxis]

Min2(a, b) == IF a <= b THEN a ELSE b
Max2(a, b) == IF a >= b THEN a ELSE b

VARIABLES
    m_photons,        \* the photon array, indexed 0 .. m_maxPhotons
    m_photonCount,
    m_maxPhotons,
    m_balanced,
    m_aabb,
    m_lastInnerNode,
    m_lastRChildNode,
    m_scale,
    lastCall,         \* the last completed call, its arguments and result
    q,                \* the locals of the query in progress
    fn,               \* a pure function applied on its own, and its locals
    t2,               \* the locals of the nnSearch call of a second thread
    stream,           \* the stream serialize writes to
    copy              \* the map the deserializing constructor builds

mapVars == <<m_photons, m_photonCount, m_maxPhotons, m_balanced, m_aabb,
             m_lastInnerNode, m_lastRChildNode, m_scale>>
\* what is outside the map and the calling thread
others == <<t2, stream, copy>>
vars == <<m_photons, m_photonCount, m_maxPhotons, m_balanced, m_aabb,
          m_lastInnerNode, m_lastRChildNode, m_scale, lastCall, q, fn,
          t2, stream, copy>>

\* ------------------------------------------------------------------------
\* AABB
\* ------------------------------------------------------------------------
EmptyAABB == [min |-> <<Infinity, Infinity, Infinity>>,
              max |-> <<0 - Infinity, 0 - Infinity, 0 - Infinity>>]

expandBy(aabb, pos) ==
    [min |-> [a \in 1 .. 3 |-> Min2(aabb.min[a], pos[a])],
     max |-> [a \in 1 .. 3 |-> Max2(aabb.max[a], pos[a])]]

getLargestAxis(aabb) ==
    LET d(a) == aabb.max[a + 1] - aabb.min[a + 1]
        l1 == IF d(1) > d(0) THEN 1 ELSE 0
    IN  IF d(2) > d(l1) THEN 2 ELSE l1

\* ------------------------------------------------------------------------
\* Construction and storePhoton
\* ------------------------------------------------------------------------
\* Photon(pos, normal, dir, power, depth); balance writes the axis
Photon(pos, normal, dir, power, depth) ==
    [pos |-> pos, normal |-> normal, dir |-> dir, power |-> power,
     depth |-> depth, axis |-> NoAxis]

\* the normal, direction, power and depth of the photons stored where only
\* the positions matter
DefaultNormal == <<0, 0, 1>>
DefaultDir == <<0, 0, 0 - 1>>
DefaultPower == 1
DefaultDepth == 1
PhotonAt(pos) ==
    Photon(pos, DefaultNormal, DefaultDir, DefaultPower, DefaultDepth)

Idle == [pc |-> "idle"]
\* no map has been deserialized
NoMap == [m_maxPhotons |-> 0 - 1]
NoFn == [op |-> "none"]

\* the index without the increment
storeIndexSame(count) == count

\* the new index of storePhoton: ++m_photonCount
storeIndex(count) == count + 1

\* the overflow check off by one
storeOverflowOffByOne(count, maxPhotons) == count > maxPhotons

\* the overflow check of storePhoton
storeOverflow(count, maxPhotons) == count >= maxPhotons

\* storePhoton without its assertion
storePhotonNoAssert(pos, normal, dir, power, depth) ==
    /\ q.pc = "idle"
    /\ IF storeOverflow(m_photonCount, m_maxPhotons)
         THEN /\ lastCall' = [op |-> "storePhoton", ret |-> FALSE]
              /\ UNCHANGED <<m_photons, m_photonCount, m_aabb>>
         ELSE /\ m_aabb' = expandBy(m_aabb, pos)
              /\ m_photonCount' = storeIndex(m_photonCount)
              /\ m_photons' = [m_photons EXCEPT
                                 ![storeIndex(m_photonCount)] =
                                    Photon(pos, normal, dir, power, depth)]
              /\ lastCall' = [op |-> "storePhoton", ret |-> TRUE]
    /\ UNCHANGED <<m_maxPhotons, m_balanced, m_lastInnerNode,
                   m_lastRChildNode, m_scale, q, fn, others>>

\* storePhoton: Assert(!m_balanced), the overflow check, then the store
storePhoton(pos, normal, dir, power, depth) ==
    /\ q.pc = "idle"
    /\ IF m_balanced
         THEN /\ lastCall' = [op |-> "AssertionFailure", in |-> "storePhoton"]
              /\ UNCHANGED <<m_photons, m_photonCount, m_aabb>>
         ELSE IF storeOverflow(m_photonCount, m_maxPhotons)
         THEN /\ lastCall' = [op |-> "storePhoton", ret |-> FALSE]
              /\ UNCHANGED <<m_photons, m_photonCount, m_aabb>>
         ELSE /\ m_aabb' = expandBy(m_aabb, pos)
              /\ m_photonCount' = storeIndex(m_photonCount)
              /\ m_photons' = [m_photons EXCEPT
                                 ![storeIndex(m_photonCount)] =
                                    Photon(pos, normal, dir, power, depth)]
              /\ lastCall' = [op |-> "storePhoton", ret |-> TRUE]
    /\ UNCHANGED <<m_maxPhotons, m_balanced, m_lastInnerNode,
                   m_lastRChildNode, m_scale, q, fn, others>>

\* ------------------------------------------------------------------------
\* guarded_partition
\* ------------------------------------------------------------------------
\* a copy in place of the swap
iter_copy(a, i, j) == [a EXCEPT ![i] = a[j]]

\* std::iter_swap
iter_swap(a, i, j) == [a EXCEPT ![i] = a[j], ![j] = a[i]]

\* while (pred1(*start)) start++;   pred1(x) is x \in P1
RECURSIVE gpAdvance(_, _, _)
gpAdvance(a, start, P1) ==
    IF a[start] \in P1 THEN gpAdvance(a, start + 1, P1) ELSE start

\* while (pred2(*end) && end > start) end--;   pred2(x) is x \in P2
RECURSIVE gpRetreat(_, _, _, _)
gpRetreat(a, start, end, P2) ==
    IF a[end] \in P2 /\ end > start THEN gpRetreat(a, start, end - 1, P2)
                                    ELSE end

\* the exit test of the outer loop
gpBreak(start, end) == start >= end

\* return end;
gpResultEnd(a, start, end) == [a |-> a, mid |-> end]

\* return start;
gpResult(a, start, end) == [a |-> a, mid |-> start]

\* the outer while (true) loop, entered with end already decremented
RECURSIVE gpLoop(_, _, _, _, _)
gpLoop(a, start, end, P1, P2) ==
    LET s == gpAdvance(a, start, P1)
        e == gpRetreat(a, s, end, P2)
    IN  IF gpBreak(s, e) THEN gpResult(a, s, e)
        ELSE gpLoop(iter_swap(a, s, e), s + 1, e - 1, P1, P2)

\* guarded_partition without the end-- at its head
guarded_partition_NoDec(a, start, end, P1, P2) == gpLoop(a, start, end, P1, P2)

guarded_partition(a, start, end, P1, P2) == gpLoop(a, start, end - 1, P1, P2)

\* ------------------------------------------------------------------------
\* quickPartition
\* ------------------------------------------------------------------------
\* the float (*ptr)->pos[axis]
posAt(photons, ptr, axis) == photons[ptr].pos[axis + 1]

\* the pointers on which comparePhotonLess(axis, pivotValue) is true
comparePhotonLess(photons, axis, pivotValue) ==
    {x \in DOMAIN photons :
        photons[x] # Uninit /\ posAt(photons, x, axis) < pivotValue}

\* the pointers on which comparePhotonGreater(axis, pivotValue) is true
comparePhotonGreater(photons, axis, pivotValue) ==
    {x \in DOMAIN photons :
        photons[x] # Uninit /\ posAt(photons, x, axis) > pivotValue}

\* the narrowing that returns as soon as the split point is not past pivot
qpNarrowEarly(st, mid, pivot) ==
    IF mid > pivot THEN [st EXCEPT !.right = mid - 1]
    ELSE [st EXCEPT !.done = TRUE]

\* where the loop of quickPartition goes after the partition: the new
\* left and right, or the return
qpNarrow(st, mid, pivot) ==
    IF mid > pivot THEN [st EXCEPT !.right = mid - 1]
    ELSE IF mid < pivot THEN [st EXCEPT !.left = mid + 1]
    ELSE [st EXCEPT !.done = TRUE]

\* the iteration that keeps the split point in the range it goes on with
qpIterWide(photons, st, pivot, axis) ==
    LET pivotValue == posAt(photons, st.ptrs[st.right], axis)
        gp == guarded_partition(st.ptrs, st.left, st.right,
                  comparePhotonLess(photons, axis, pivotValue),
                  comparePhotonGreater(photons, axis, pivotValue))
        swapped == iter_swap(gp.a, gp.mid, st.right)
    IN  IF gp.mid > pivot THEN [st EXCEPT !.ptrs = swapped, !.right = gp.mid]
        ELSE IF gp.mid < pivot
               THEN [st EXCEPT !.ptrs = swapped, !.left = gp.mid]
        ELSE [st EXCEPT !.ptrs = swapped, !.done = TRUE]

\* one iteration of the loop of quickPartition; st.right is the
\* decremented right
qpIter(photons, st, pivot, axis) ==
    LET pivotValue == posAt(photons, st.ptrs[st.right], axis)
        gp == guarded_partition(st.ptrs, st.left, st.right,
                  comparePhotonLess(photons, axis, pivotValue),
                  comparePhotonGreater(photons, axis, pivotValue))
        swapped == iter_swap(gp.a, gp.mid, st.right)
    IN  qpNarrow([st EXCEPT !.ptrs = swapped], gp.mid, pivot)

\* the test of the while loop of quickPartition
qpContinue(st) == ~st.done /\ st.right > st.left

RECURSIVE qpLoop(_, _, _, _)
qpLoop(photons, st, pivot, axis) ==
    IF qpContinue(st) THEN qpLoop(photons, qpIter(photons, st, pivot, axis),
                                  pivot, axis)
                      ELSE st

\* the state of quickPartition after right--
qpEntry(ptrs, left, right) ==
    [ptrs |-> ptrs, left |-> left, right |-> right - 1, done |-> FALSE]

quickPartition(photons, ptrs, left, right, pivot, axis) ==
    qpLoop(photons, qpEntry(ptrs, left, right), pivot, axis).ptrs

\* ------------------------------------------------------------------------
\* leftSubtreeSize
\* ------------------------------------------------------------------------
\* while (2*p <= treeSize) p *= 2;
RECURSIVE lstDescend(_, _)
lstDescend(p, treeSize) ==
    IF 2 * p <= treeSize THEN lstDescend(2 * p, treeSize) ELSE p

\* the node count without the case of a last level less than half full
lstResultFull(p, remaining) == p - 1

\* the node count of the left subtree, from p and the filled slots of the
\* last level
lstResult(p, remaining) ==
    IF 2 * remaining < p THEN ((p \div 2) + remaining) - 1 ELSE p - 1

leftSubtreeSize(treeSize) ==
    LET p == lstDescend(1, treeSize)
        remaining == treeSize - p + 1
    IN  lstResult(p, remaining)

leftChild(index) == 2 * index
rightChild(index) == 2 * index + 1

\* ------------------------------------------------------------------------
\* balance
\* ------------------------------------------------------------------------
\* std::swap(aabb.max[splitAxis], splitPos) and the same on aabb.min; b is
\* [photons, ptrs, perm, aabb, log] with the local splitPos in b.splitPos
\* the call made without the swap on aabb.max
swapMaxNone(b, splitAxis) == b

swapMax(b, splitAxis) ==
    [b EXCEPT !.aabb.max[splitAxis + 1] = b.splitPos,
              !.splitPos = b.aabb.max[splitAxis + 1]]

\* an assignment in place of the swap on aabb.min
swapMinAssign(b, splitAxis) ==
    [b EXCEPT !.aabb.min[splitAxis + 1] = b.splitPos]

swapMin(b, splitAxis) ==
    [b EXCEPT !.aabb.min[splitAxis + 1] = b.splitPos,
              !.splitPos = b.aabb.min[splitAxis + 1]]

\* heapPermutation[heapIndex] = *ptr - *basePtr; log lists the indices
\* written, in the order of the writes
writePerm(b, heapIndex, ptr) ==
    [b EXCEPT !.perm = IF heapIndex \in DOMAIN b.perm
                         THEN [b.perm EXCEPT ![heapIndex] = b.ptrs[ptr] - b.ptrs[0]]
                         ELSE b.perm,
              !.log = Append(b.log, heapIndex)]

\* the state after a recursive call made in the state frame returns the
\* state r: what the call reached by reference, and the caller's own local
\* splitPos
callFrom(frame, r) == [r EXCEPT !.splitPos = frame.splitPos]

\* the pivot of balanceRecursive
brPivot(sortStart, sortEnd) == sortStart + leftSubtreeSize(sortEnd - sortStart)

RECURSIVE balanceRecursive(_, _, _, _)
balanceRecursive(b, sortStart, sortEnd, heapIndex) ==
    LET pivot     == brPivot(sortStart, sortEnd)
        splitAxis == getLargestAxis(b.aabb)
        ptrs1     == quickPartition(b.photons, b.ptrs, sortStart, sortEnd,
                                    pivot, splitAxis)
        b1        == [b EXCEPT !.ptrs = ptrs1,
                               !.splitPos = posAt(b.photons, ptrs1[pivot], splitAxis)]
        b2        == [writePerm(b1, heapIndex, pivot)
                        EXCEPT !.photons[ptrs1[pivot]].axis = splitAxis]
        b3        == IF pivot > sortStart
                       THEN IF pivot > sortStart + 1
                              THEN swapMax(
                                     callFrom(swapMax(b2, splitAxis),
                                        balanceRecursive(swapMax(b2, splitAxis),
                                           sortStart, pivot, leftChild(heapIndex))),
                                     splitAxis)
                              ELSE writePerm(b2, leftChild(heapIndex), sortStart)
                       ELSE b2
        b4        == IF pivot < sortEnd - 1
                       THEN IF pivot < sortEnd - 2
                              THEN swapMin(
                                     callFrom(swapMin(b3, splitAxis),
                                        balanceRecursive(swapMin(b3, splitAxis),
                                           pivot + 1, sortEnd, rightChild(heapIndex))),
                                     splitAxis)
                              ELSE writePerm(b3, rightChild(heapIndex), sortEnd - 1)
                       ELSE b3
    IN  b4

\* values[i] = values[perm[i]] for every i of perm, by cycles
permute_inplace(photons, perm) ==
    [i \in DOMAIN photons |->
        IF i \in DOMAIN perm THEN photons[perm[i]] ELSE photons[i]]

\* the locals of balance before the call of balanceRecursive
balanceEntry(photons, count, aabb) ==
    [photons  |-> photons,
     ptrs     |-> [i \in 0 .. count |-> i],
     perm     |-> [i \in 0 .. count |-> 0],
     aabb     |-> aabb,
     splitPos |-> 0,
     log      |-> <<>>]

\* the outcome of balanceRecursive as called by balance
balanced(photons, count, aabb) ==
    balanceRecursive(balanceEntry(photons, count, aabb), 1, count + 1, 1)

lastInnerNode(count) == count \div 2
lastRChildNode(count) == (count - 1) \div 2

balance ==
    /\ q.pc = "idle"
    /\ IF m_photonCount = 0
         THEN /\ m_balanced' = TRUE
              /\ lastCall' = [op |-> "balance", ret |-> "empty"]
              /\ UNCHANGED <<m_photons, m_aabb, m_lastInnerNode, m_lastRChildNode>>
         ELSE IF m_balanced
         THEN /\ lastCall' = [op |-> "AssertionFailure", in |-> "balance"]
              /\ UNCHANGED <<m_photons, m_aabb, m_balanced, m_lastInnerNode,
                             m_lastRChildNode>>
         ELSE LET b == balanced(m_photons, m_photonCount, m_aabb)
              IN  /\ m_photons' = permute_inplace(b.photons, b.perm)
                  /\ m_aabb' = b.aabb
                  /\ m_lastInnerNode' = lastInnerNode(m_photonCount)
                  /\ m_lastRChildNode' = lastRChildNode(m_photonCount)
                  /\ m_balanced' = TRUE
                  /\ lastCall' = [op |-> "balance", ret |-> "done",
                                  before |-> m_photons, perm |-> b.perm,
                                  log |-> b.log]
    /\ UNCHANGED <<m_photonCount, m_maxPhotons, m_scale, q, fn, others>>

\* ------------------------------------------------------------------------
\* The heap algorithms of the standard library, on results[0 .. len)
\* ------------------------------------------------------------------------
\* distanceMetric: a.first < b.first
distanceMetric(a, b) == a.first < b.first

RECURSIVE push_heap_loop(_, _, _, _)
push_heap_loop(r, holeIndex, topIndex, value) ==
    LET parent == (holeIndex - 1) \div 2
    IN  IF holeIndex > topIndex /\ distanceMetric(r[parent], value)
          THEN push_heap_loop([r EXCEPT ![holeIndex] = r[parent]], parent,
                              topIndex, value)
          ELSE [r EXCEPT ![holeIndex] = value]

RECURSIVE adjust_heap_loop(_, _, _, _)
adjust_heap_loop(r, holeIndex, secondChild, len) ==
    IF secondChild < (len - 1) \div 2
      THEN LET c  == 2 * (secondChild + 1)
               c2 == IF distanceMetric(r[c], r[c - 1]) THEN c - 1 ELSE c
           IN  adjust_heap_loop([r EXCEPT ![holeIndex] = r[c2]], c2, c2, len)
      ELSE [r |-> r, holeIndex |-> holeIndex, secondChild |-> secondChild]

adjust_heap(r, holeIndex, len, value) ==
    LET d  == adjust_heap_loop(r, holeIndex, holeIndex, len)
        d2 == IF len % 2 = 0 /\ d.secondChild = (len - 2) \div 2
                THEN LET c == 2 * (d.secondChild + 1)
                     IN  [r |-> [d.r EXCEPT ![d.holeIndex] = d.r[c - 1]],
                          holeIndex |-> c - 1]
                ELSE [r |-> d.r, holeIndex |-> d.holeIndex]
    IN  push_heap_loop(d2.r, d2.holeIndex, holeIndex, value)

RECURSIVE make_heap_loop(_, _, _)
make_heap_loop(r, parent, len) ==
    LET r2 == adjust_heap(r, parent, len, r[parent])
    IN  IF parent = 0 THEN r2 ELSE make_heap_loop(r2, parent - 1, len)

make_heap(r, len) ==
    IF len < 2 THEN r ELSE make_heap_loop(r, (len - 2) \div 2, len)

push_heap(r, len) == push_heap_loop(r, len - 1, 0, r[len - 1])

\* the heap left as it is, with its largest element in front
pop_heap_none(r, len) == r

pop_heap(r, len) ==
    IF len > 1
      THEN adjust_heap([r EXCEPT ![len - 1] = r[0]], 0, len - 1, r[len - 1])
      ELSE r

\* ------------------------------------------------------------------------
\* nnSearch
\* ------------------------------------------------------------------------
\* a slot of the results buffer that nnSearch has not written
NoResult == [first |-> 0 - 1, second |-> 0]

isInnerNode(index, lastInner) == index <= lastInner
hasRightChild(index, lastRChild) == index <= lastRChild

\* Photon::distSquared
distSquared(pos, p) ==
    (pos[1] - p[1]) * (pos[1] - p[1]) + (pos[2] - p[2]) * (pos[2] - p[2])
      + (pos[3] - p[3]) * (pos[3] - p[3])

\* the locals of nnSearch at the loop head
nnEntry(p, searchRadiusSquared, maxSize) ==
    [pc |-> "loop", p |-> p, input |-> searchRadiusSquared,
     maxSize |-> maxSize, index |-> 1, stack |-> <<0>>, fill |-> 0,
     isPriorityQueue |-> FALSE, distSquared |-> searchRadiusSquared,
     results |-> [i \in 0 .. maxSize |-> NoResult]]

\* the push made twice
pushTwice(s, index) ==
    [s EXCEPT !.stack = Append(Append(s.stack, index), index)]

\* stack[stackPos++] = index, and index = stack[--stackPos]; the stack is
\* the sequence stack[0 .. stackPos)
push(s, index) == [s EXCEPT !.stack = Append(s.stack, index)]
pop(s) == [s EXCEPT !.index = s.stack[Len(s.stack)],
                    !.stack = SubSeq(s.stack, 1, Len(s.stack) - 1)]

\* does the search region overlap with both split half-spaces
searchBoth(distToPlane, distSq) == distToPlane * distToPlane <= distSq

\* the first half of the loop body: the next index and the stack
nnDescend(s, photon, lastInner, lastRChild) ==
    IF isInnerNode(s.index, lastInner)
      THEN LET distToPlane == s.p[photon.axis + 1] - photon.pos[photon.axis + 1]
               both == searchBoth(distToPlane, s.distSquared)
           IN  IF distToPlane > 0
                 THEN IF hasRightChild(s.index, lastRChild)
                        THEN [(IF both THEN push(s, leftChild(s.index)) ELSE s)
                                EXCEPT !.index = rightChild(s.index)]
                        ELSE IF both THEN [s EXCEPT !.index = leftChild(s.index)]
                                     ELSE pop(s)
                 ELSE [(IF both /\ hasRightChild(s.index, lastRChild)
                          THEN push(s, rightChild(s.index)) ELSE s)
                         EXCEPT !.index = leftChild(s.index)]
      ELSE pop(s)

\* the radius test with the comparison reversed
withinRadiusReversed(photonDistSquared, distSq) == photonDistSquared > distSq

\* is the photon within the search radius
withinRadius(photonDistSquared, distSq) == photonDistSquared < distSq

\* the room test off by one: fill <= maxSize
hasRoomOffByOne(fill, maxSize) == fill <= maxSize

\* is there still room in the result list
hasRoom(fill, maxSize) == fill < maxSize

\* the heap step without the reduction of the search radius
heapStepKeepRadius(s, entry) ==
    LET r0 == IF ~s.isPriorityQueue THEN make_heap(s.results, s.maxSize)
                                    ELSE s.results
        r1 == [r0 EXCEPT ![s.fill] = entry]
        r2 == push_heap(r1, s.maxSize + 1)
        r3 == pop_heap(r2, s.maxSize + 1)
    IN  [s EXCEPT !.results = r3, !.isPriorityQueue = TRUE]

\* the heap step: add the new photon, remove the one farthest away, reduce
\* the search radius
heapStep(s, entry) ==
    LET r0 == IF ~s.isPriorityQueue THEN make_heap(s.results, s.maxSize)
                                    ELSE s.results
        r1 == [r0 EXCEPT ![s.fill] = entry]
        r2 == push_heap(r1, s.maxSize + 1)
        r3 == pop_heap(r2, s.maxSize + 1)
    IN  [s EXCEPT !.results = r3, !.isPriorityQueue = TRUE,
                  !.distSquared = r3[0].first]

\* the second half of the loop body; photonIndex is the index the pointer
\* photon was taken from
nnCollect(s, photon, photonIndex) ==
    LET photonDistSquared == distSquared(photon.pos, s.p)
        entry == [first |-> photonDistSquared, second |-> photonIndex]
    IN  IF withinRadius(photonDistSquared, s.distSquared)
          THEN IF hasRoom(s.fill, s.maxSize)
                 THEN [s EXCEPT !.results[s.fill] = entry, !.fill = s.fill + 1]
                 ELSE heapStep(s, entry)
          ELSE s

\* one iteration of the while loop
nnIter(s, photons, lastInner, lastRChild) ==
    nnCollect(nnDescend(s, photons[s.index], lastInner, lastRChild),
              photons[s.index], s.index)

\* The photon array and the inner-node bounds as a query with the locals s
\* reads them.  Until balance has permuted a map that holds photons,
\* m_lastInnerNode and m_lastRChildNode are unwritten, and so are the axis
\* of every stored photon and the slots past m_photonCount; what a query
\* reads there is whatever the memory held.  Of these outcomes the model
\* has the ones in which every unwritten slot reads as the same photon
\* s.garbage, every unwritten axis as its axis, and both node bounds as
\* s.inner, all drawn at the call.
unwritten == m_lastInnerNode = NoAxis
queryPhotons(s) ==
    IF unwritten
      THEN [i \in 0 .. Max2(m_maxPhotons, rightChild(s.inner)) |->
              IF i \in 1 .. m_photonCount
                THEN [m_photons[i] EXCEPT !.axis = s.garbage.axis]
                ELSE s.garbage]
      ELSE m_photons
queryLastInner(s) == IF unwritten THEN s.inner ELSE m_lastInnerNode
queryLastRChild(s) == IF unwritten THEN s.inner ELSE m_lastRChildNode

\* values an unwritten node bound is read as
UninitNodes == {0, 1}

\* photons an unwritten slot is read as
UninitPhotons == {[PhotonAt(pos) EXCEPT !.axis = a] :
                     pos \in {<<0, 0, 0>>, <<0, 0, 1>>}, a \in Axes}

\* the locals of nnSearch at the loop head, with what the call will read
\* from unwritten memory
nnStart(p, searchRadiusSquared, maxSize, g, n) ==
    IF unwritten
      THEN [garbage |-> g, inner |-> n]
              @@ nnEntry(p, searchRadiusSquared, maxSize)
      ELSE nnEntry(p, searchRadiusSquared, maxSize)

\* the choices of what unwritten memory reads as: one when none is read
Garbage == IF unwritten THEN UninitPhotons \X UninitNodes
                        ELSE {<<Uninit, 0>>}

\* the first lines of nnSearch; visited lists the indices the loop has read
nnSearchBegin(p, searchRadiusSquared, maxSize) ==
    /\ q.pc = "idle"
    /\ \E g \in Garbage :
          q' = nnStart(p, searchRadiusSquared, maxSize, g[1], g[2])
                  @@ [visited |-> <<>>]
    /\ lastCall' = [op |-> "nnSearch running"]
    /\ UNCHANGED <<mapVars, fn, others>>

nnSearchStep ==
    /\ q.pc = "loop"
    /\ q.index > 0
    /\ q' = [nnIter(q, queryPhotons(q), queryLastInner(q), queryLastRChild(q))
               EXCEPT !.visited = Append(q.visited, q.index)]
    /\ UNCHANGED <<mapVars, lastCall, fn, others>>

\* searchRadiusSquared = distSquared; return fill;
\* what the call s read from unwritten memory
mem(s) == IF "garbage" \in DOMAIN s THEN <<s.garbage, s.inner>>
                                    ELSE <<Uninit, 0>>

nnSearchReturn ==
    /\ q.pc = "loop"
    /\ ~(q.index > 0)
    /\ q' = Idle
    /\ lastCall' = [op |-> "nnSearch", ret |-> q.fill,
                    searchRadiusSquared |-> q.distSquared,
                    results |-> q.results, p |-> q.p, input |-> q.input,
                    maxSize |-> q.maxSize, visited |-> q.visited,
                    mem |-> mem(q)]
    /\ UNCHANGED <<mapVars, fn, others>>

\* ------------------------------------------------------------------------
\* The density estimators
\* ------------------------------------------------------------------------
\* nnSearch from its first line to its return: the locals at the return
RECURSIVE nnRun(_)
nnRun(s) ==
    IF s.index > 0
      THEN nnRun(nnIter(s, queryPhotons(s), queryLastInner(s),
                        queryLastRChild(s)))
      ELSE s

\* nnSearch(p, searchRadiusSquared, maxSize, results) as the estimators call
\* it; g is what the call reads from unwritten memory
nnSearch(p, searchRadiusSquared, maxSize, g) ==
    nnRun(nnStart(p, searchRadiusSquared, maxSize, g[1], g[2]))

dot(a, b) == a[1] * b[1] + a[2] * b[2] + a[3] * b[3]
neg(a) == <<0 - a[1], 0 - a[2], 0 - a[3]>>

\* Photon::getDirection, getNormal, getPower, getDepth
getDirection(photon) == photon.dir
getNormal(photon) == photon.normal
getPower(photon) == photon.power
getDepth(photon) == photon.depth

\* results[0 .. resultCount) of the search s, in the order of the loops
found(s) == [i \in 1 .. s.fill |-> s.results[i - 1]]

\* the photon results[i].second points to
photonOf(s, e) == queryPhotons(s)[e.second]

\* result += term, over the terms in order; a term is its photon's power
\* times a weight
RECURSIVE sumTerms(_)
sumTerms(terms) ==
    IF terms = <<>> THEN 0
    ELSE Head(terms).power * Head(terms).weight + sumTerms(Tail(terms))

\* the numerator of Simpson's kernel (1 - d/r2)^2 = (r2 - d)^2 / r2^2
sqrTermNum(photonDistanceSqr, distSq) ==
    (distSq - photonDistanceSqr) * (distSq - photonDistanceSqr)

\* the term of the photon of the search result e, with the weight w
term(s, e, w) == [photon |-> e.second, power |-> getPower(photonOf(s, e)),
                  weight |-> w]

\* the Spectrum an estimator returns: sum * (m_scale * factor / distSquared),
\* where factor is INV_PI, 3 * INV_PI or that of the ball volume, and sum
\* is over squaredWeights ? weight / distSquared^2 : weight.  A distSquared
\* of 0 makes the quotient infinite and the product not a number.
Spectrum(terms, distSq) ==
    [terms |-> terms, sum |-> sumTerms(terms), scale |-> m_scale,
     distSquared |-> distSq]

\* is the Spectrum r the zero spectrum
isZero(r) == r.sum = 0 /\ r.distSquared # 0

\* the hemisphere test of estimateIrradiance and of the scalar
\* estimateIrradianceFiltered: dot(photon.getDirection(), n) < 0
sameSide(photon, n) == dot(getDirection(photon), n) < 0

\* the test of the MTS_SSE estimateIrradianceFiltered: the photon is
\* skipped when dot(photon.getDirection(), n) > 0
skipped(photon, n) == dot(getDirection(photon), n) > 0

\* the loop and the return of estimateIrradiance, after the search s
irradiance(s, n) ==
    LET used == SelectSeq(found(s), LAMBDA e : sameSide(photonOf(s, e), n))
    IN  Spectrum([i \in 1 .. Len(used) |-> term(s, used[i], 1)],
                 s.distSquared)

\* the same of estimateIrradianceFiltered, built without MTS_SSE
irradianceFiltered(s, n) ==
    LET used == SelectSeq(found(s), LAMBDA e : sameSide(photonOf(s, e), n))
    IN  Spectrum([i \in 1 .. Len(used) |->
                    term(s, used[i], sqrTermNum(used[i].first, s.distSquared))],
                 s.distSquared)

\* the same of estimateIrradianceFiltered, built with MTS_SSE
irradianceFilteredSSE(s, n) ==
    LET used == SelectSeq(found(s), LAMBDA e : ~skipped(photonOf(s, e), n))
    IN  Spectrum([i \in 1 .. Len(used) |->
                    term(s, used[i], sqrTermNum(used[i].first, s.distSquared))],
                 s.distSquared)

\* the same of estimateRadianceFiltered: every photon found, weighted by
\* the BSDF at (its, its.toLocal(-direction)), which is left in the term
radianceFiltered(s, its) ==
    Spectrum([i \in 1 .. s.fill |->
                term(s, found(s)[i],
                     sqrTermNum(found(s)[i].first, s.distSquared))
                @@ [wiWorld |-> neg(getDirection(photonOf(s, found(s)[i])))]],
             s.distSquared)

\* the same of estimateVolumeRadiance: every photon found, weighted by the
\* phase function at (mRec, direction, wo), which is left in the term
volumeRadiance(s, wo) ==
    Spectrum([i \in 1 .. s.fill |->
                term(s, found(s)[i], 1)
                @@ [wi |-> getDirection(photonOf(s, found(s)[i])),
                    wo |-> wo]],
             s.distSquared)

\* Assert(m_balanced) has failed in the estimator named
assertionFailure(name) == [op |-> "AssertionFailure", in |-> name]

\* what an estimator returns after the search s: the Spectrum ret
returned(name, s, ret) ==
    [op |-> name, ret |-> ret, resultCount |-> s.fill, search |-> s]

\* the assertion, the search, the sum and the return
estimateIrradiance(p, n, searchRadius, maxPhotons) ==
    /\ q.pc = "idle"
    /\ IF ~m_balanced
         THEN lastCall' = assertionFailure("estimateIrradiance")
         ELSE \E g \in Garbage :
                 LET s == nnSearch(p, searchRadius * searchRadius,
                                   maxPhotons, g)
                 IN  lastCall' = returned("estimateIrradiance", s,
                                          irradiance(s, n))
    /\ UNCHANGED <<mapVars, q, fn, others>>

\* estimateIrradianceFiltered of a build without MTS_SSE
estimateIrradianceFiltered(p, n, searchRadius, maxPhotons) ==
    /\ q.pc = "idle"
    /\ IF ~m_balanced
         THEN lastCall' = assertionFailure("estimateIrradianceFiltered")
         ELSE \E g \in Garbage :
                 LET s == nnSearch(p, searchRadius * searchRadius,
                                   maxPhotons, g)
                 IN  lastCall' = returned("estimateIrradianceFiltered", s,
                                          irradianceFiltered(s, n))
                                    @@ [n |-> n]
    /\ UNCHANGED <<mapVars, q, fn, others>>

\* estimateIrradianceFiltered of a build with MTS_SSE
estimateIrradianceFilteredSSE(p, n, searchRadius, maxPhotons) ==
    /\ q.pc = "idle"
    /\ IF ~m_balanced
         THEN lastCall' = assertionFailure("estimateIrradianceFiltered (MTS_SSE)")
         ELSE \E g \in Garbage :
                 LET s == nnSearch(p, searchRadius * searchRadius,
                                   maxPhotons, g)
                 IN  lastCall' = returned("estimateIrradianceFiltered (MTS_SSE)",
                                          s, irradianceFilteredSSE(s, n))
                                    @@ [n |-> n]
    /\ UNCHANGED <<mapVars, q, fn, others>>

\* its is the intersection: its.p and the shading normal its.n
estimateRadianceFiltered(its, searchRadius, maxPhotons) ==
    /\ q.pc = "idle"
    /\ IF ~m_balanced
         THEN lastCall' = assertionFailure("estimateRadianceFiltered")
         ELSE \E g \in Garbage :
                 LET s == nnSearch(its.p, searchRadius * searchRadius,
                                   maxPhotons, g)
                 IN  lastCall' = returned("estimateRadianceFiltered", s,
                                          radianceFiltered(s, its))
    /\ UNCHANGED <<mapVars, q, fn, others>>

\* ray is [o, d]
estimateVolumeRadiance(ray, searchRadius, maxPhotons) ==
    /\ q.pc = "idle"
    /\ IF ~m_balanced
         THEN lastCall' = assertionFailure("estimateVolumeRadiance")
         ELSE \E g \in Garbage :
                 LET s == nnSearch(ray.o, searchRadius * searchRadius,
                                   maxPhotons, g)
                 IN  lastCall' = returned("estimateVolumeRadiance", s,
                                          volumeRadiance(s, neg(ray.d)))
    /\ UNCHANGED <<mapVars, q, fn, others>>

\* ------------------------------------------------------------------------
\* estimateRadianceRaw, which walks the tree itself
\* ------------------------------------------------------------------------
\* the locals of estimateRadianceRaw at the loop head
rawEntry(its, searchRadius, maxDepth) ==
    [pc |-> "raw", p |-> its.p, n |-> its.n, maxDepth |-> maxDepth,
     index |-> 1, stack |-> <<0>>, resultCount |-> 0,
     distSquared |-> searchRadius * searchRadius, terms |-> <<>>]

\* the same, with what the call will read from unwritten memory
rawStart(its, searchRadius, maxDepth, g, n) ==
    IF unwritten
      THEN [garbage |-> g, inner |-> n] @@ rawEntry(its, searchRadius, maxDepth)
      ELSE rawEntry(its, searchRadius, maxDepth)

\* the first half of the loop body: the next index and the stack
rawDescend(s, photon, lastInner, lastRChild) ==
    IF isInnerNode(s.index, lastInner)
      THEN LET distToPlane == s.p[photon.axis + 1] - photon.pos[photon.axis + 1]
               both == distToPlane * distToPlane <= s.distSquared
           IN  IF distToPlane > 0
                 THEN IF hasRightChild(s.index, lastRChild)
                        THEN [(IF both THEN push(s, leftChild(s.index)) ELSE s)
                                EXCEPT !.index = rightChild(s.index)]
                        ELSE IF both THEN [s EXCEPT !.index = leftChild(s.index)]
                                     ELSE pop(s)
                 ELSE [(IF both /\ hasRightChild(s.index, lastRChild)
                          THEN push(s, rightChild(s.index)) ELSE s)
                         EXCEPT !.index = leftChild(s.index)]
      ELSE pop(s)

\* the photons the loop passes over: photon->getDepth() > maxDepth,
\* dot(photonNormal, its.shFrame.n) < .1, dot(photonNormal, wiWorld) < 1e-2
rawRejected(photon, n, maxDepth) ==
    \/ getDepth(photon) > maxDepth
    \/ 10 * dot(getNormal(photon), n) < 1
    \/ 100 * dot(getNormal(photon), neg(getDirection(photon))) < 1

\* the second half of the loop body; the BSDF and the cosines of the term
\* are left in it
rawCollect(s, photon, photonIndex) ==
    IF distSquared(photon.pos, s.p) < s.distSquared
         /\ ~rawRejected(photon, s.n, s.maxDepth)
      THEN [s EXCEPT !.terms = Append(s.terms,
                        [photon |-> photonIndex, power |-> getPower(photon),
                         wiWorld |-> neg(getDirection(photon))]),
                     !.resultCount = s.resultCount + 1]
      ELSE s

\* one iteration of the while loop
rawIter(s, photons, lastInner, lastRChild) ==
    rawCollect(rawDescend(s, photons[s.index], lastInner, lastRChild),
               photons[s.index], s.index)

\* result = Spectrum(0.0f), the assertion and the locals; visited lists the
\* indices the loop has read
estimateRadianceRawBegin(its, searchRadius, maxDepth) ==
    /\ q.pc = "idle"
    /\ IF ~m_balanced
         THEN /\ lastCall' = assertionFailure("estimateRadianceRaw")
              /\ q' = q
         ELSE /\ \E g \in Garbage :
                    q' = rawStart(its, searchRadius, maxDepth, g[1], g[2])
                            @@ [visited |-> <<>>]
              /\ lastCall' = [op |-> "estimateRadianceRaw running"]
    /\ UNCHANGED <<mapVars, fn, others>>

estimateRadianceRawStep ==
    /\ q.pc = "raw"
    /\ q.index > 0
    /\ q' = [rawIter(q, queryPhotons(q), queryLastInner(q), queryLastRChild(q))
               EXCEPT !.visited = Append(q.visited, q.index)]
    /\ UNCHANGED <<mapVars, lastCall, fn, others>>

\* return resultCount;
estimateRadianceRawReturn ==
    /\ q.pc = "raw"
    /\ ~(q.index > 0)
    /\ q' = Idle
    /\ lastCall' = [op |-> "estimateRadianceRaw", ret |-> q.resultCount,
                    result |-> q.terms, visited |-> q.visited]
    /\ UNCHANGED <<mapVars, fn, others>>

\* ------------------------------------------------------------------------
\* The life of one photon map
\* ------------------------------------------------------------------------
\* PhotonMap(maxPhotons)
PhotonMap(maxPhotons) ==
    /\ m_maxPhotons = maxPhotons
    /\ m_photons = [i \in 0 .. m_maxPhotons |-> Uninit]
    /\ m_photonCount = 0
    /\ m_balanced = FALSE
    /\ m_aabb = EmptyAABB
    /\ m_lastInnerNode = NoAxis
    /\ m_lastRChildNode = NoAxis
    /\ m_scale = 1
    /\ lastCall = [op |-> "PhotonMap", ret |-> "done"]
    /\ q = Idle
    /\ fn = NoFn
    /\ t2 = Idle
    /\ stream = <<>>
    /\ copy = NoMap

Init == \E maxPhotons \in 0 .. MaxPhotons : PhotonMap(maxPhotons)

\* the last call was of the constructor, storePhoton or balance: the
\* caller here queries a map once, after the last of these calls.  A query
\* reads neither lastCall nor what an earlier query left.
fresh == lastCall.op \in {"PhotonMap", "storePhoton", "balance"}

Next ==
    \/ \E pos \in Positions :
          storePhoton(pos, DefaultNormal, DefaultDir, DefaultPower,
                      DefaultDepth)
    \/ balance
    \/ \E p \in QueryPoints : \E r \in 0 .. MaxRadiusSq : \E k \in 0 .. MaxSize :
          m_balanced /\ fresh /\ nnSearchBegin(p, r, k)
    \/ nnSearchStep
    \/ nnSearchReturn

Spec == Init /\ [][Next]_vars

\* ------------------------------------------------------------------------
\* The life of one photon map, with the estimators and with queries of maps
\* that are not balanced
\* ------------------------------------------------------------------------
Up == <<0, 0, 1>>
Down == <<0, 0, 0 - 1>>
East == <<1, 0, 0>>
West == <<0 - 1, 0, 0>>

\* the photons handed to storePhoton
EstSamples ==
    {[pos |-> <<0, 0, 0>>, normal |-> Up, dir |-> Down, power |-> 1, depth |-> 1],
     [pos |-> <<1, 0, 0>>, normal |-> Up, dir |-> East, power |-> 2, depth |-> 1],
     [pos |-> <<0, 1, 0>>, normal |-> Up, dir |-> Up, power |-> 1, depth |-> 2],
     [pos |-> <<0, 0, 1>>, normal |-> East, dir |-> West, power |-> 2, depth |-> 2]}

\* the points, normals and depths handed to the estimators
EstPoints == {<<0, 0, 0>>, <<1, 1, 0>>}
EstNormals == {Up, East}
EstDepths == {1, 2}

InitEst == \E maxPhotons \in 0 .. MaxEstPhotons : PhotonMap(maxPhotons)

NextEst ==
    \/ \E s \in EstSamples :
          storePhoton(s.pos, s.normal, s.dir, s.power, s.depth)
    \/ balance
    \/ \E p \in EstPoints : \E r \in 0 .. MaxRadius : \E k \in 0 .. MaxSize :
          fresh /\ nnSearchBegin(p, r * r, k)
    \/ nnSearchStep
    \/ nnSearchReturn
    \/ \E p \in EstPoints : \E n \in EstNormals : \E r \in 0 .. MaxRadius :
       \E k \in 0 .. MaxSize :
          \/ fresh /\ estimateIrradiance(p, n, r, k)
          \/ fresh /\ estimateIrradianceFiltered(p, n, r, k)
          \/ fresh /\ estimateIrradianceFilteredSSE(p, n, r, k)
          \/ fresh /\ estimateRadianceFiltered([p |-> p, n |-> n], r, k)
          \/ fresh /\ estimateVolumeRadiance([o |-> p, d |-> n], r, k)
    \/ \E p \in EstPoints : \E n \in EstNormals : \E r \in 0 .. MaxRadius :
       \E d \in EstDepths :
          fresh /\ estimateRadianceRawBegin([p |-> p, n |-> n], r, d)
    \/ estimateRadianceRawStep
    \/ estimateRadianceRawReturn

SpecEst == InitEst /\ [][NextEst]_vars

\* ------------------------------------------------------------------------
\* The life of one photon map that two threads query at once
\* ------------------------------------------------------------------------
\* nnSearch as a second thread calls it, with its own locals and results
nnSearchBegin2(p, searchRadiusSquared, maxSize) ==
    /\ t2.pc = "idle"
    /\ \E g \in Garbage :
          t2' = nnStart(p, searchRadiusSquared, maxSize, g[1], g[2])
    /\ UNCHANGED <<mapVars, lastCall, q, fn, stream, copy>>

nnSearchStep2 ==
    /\ t2.pc = "loop"
    /\ t2.index > 0
    /\ t2' = nnIter(t2, queryPhotons(t2), queryLastInner(t2),
                    queryLastRChild(t2))
    /\ UNCHANGED <<mapVars, lastCall, q, fn, stream, copy>>

\* the return; the second thread keeps what its call returned
nnSearchReturn2 ==
    /\ t2.pc = "loop"
    /\ ~(t2.index > 0)
    /\ t2' = [pc |-> "returned", ret |-> t2.fill,
              searchRadiusSquared |-> t2.distSquared, results |-> t2.results,
              p |-> t2.p, input |-> t2.input, maxSize |-> t2.maxSize,
              mem |-> mem(t2)]
    /\ UNCHANGED <<mapVars, lastCall, q, fn, stream, copy>>

InitConc == \E maxPhotons \in 0 .. MaxConcPhotons : PhotonMap(maxPhotons)

\* storePhoton and balance at any time, the queries of the first thread as
\* above, and one query of the second thread, of a balanced map
NextConc ==
    \/ \E pos \in Positions :
          storePhoton(pos, DefaultNormal, DefaultDir, DefaultPower,
                      DefaultDepth)
    \/ balance
    \/ \E p \in QueryPoints : \E r \in 0 .. MaxRadiusSq : \E k \in 0 .. MaxSize :
          m_balanced /\ fresh /\ nnSearchBegin(p, r, k)
    \/ nnSearchStep
    \/ nnSearchReturn
    \/ \E p \in QueryPoints :
          fresh /\ estimateIrradiance(p, DefaultNormal, MaxRadius, 1)
    \/ \E p \in QueryPoints :
          m_balanced /\ nnSearchBegin2(p, MaxRadiusSq, 1)
    \/ nnSearchStep2
    \/ nnSearchReturn2

SpecConc == InitConc /\ [][NextConc]_vars

\* ------------------------------------------------------------------------
\* serialize and the deserializing constructor
\* ------------------------------------------------------------------------
\* The stream is the sequence of the values written, read back in the order
\* of writing: a reader takes whatever value is next.  A member or a slot
\* that no code has written is written as it is: the values of such a slot
\* are NoAxis, which no written position is.

\* largest capacity of a serialized map
MaxSerPhotons == 2

\* AABB::serialize: the minimum and the maximum point
aabbSerialize(aabb) == aabb.min \o aabb.max

\* AABB(stream), from position at of the stream
aabbFromStream(st, at) ==
    [min |-> <<st[at], st[at + 1], st[at + 2]>>,
     max |-> <<st[at + 3], st[at + 4], st[at + 5]>>]

\* the values of a photon record: position, direction, normal, power, depth
\* and axis
PhotonSize == 8
UnwrittenSlot == [i \in 1 .. PhotonSize |-> NoAxis]

\* Photon::serialize
photonSerialize(photon) ==
    IF photon = Uninit
      THEN UnwrittenSlot
      ELSE photon.pos \o <<photon.dir, photon.normal, photon.power,
                           photon.depth, photon.axis>>

\* Photon(stream), from position at of the stream
photonFromStream(st, at) ==
    IF st[at] = NoAxis
      THEN Uninit
      ELSE [pos |-> <<st[at], st[at + 1], st[at + 2]>>, dir |-> st[at + 3],
            normal |-> st[at + 4], power |-> st[at + 5],
            depth |-> st[at + 6], axis |-> st[at + 7]]

RECURSIVE photonsSerialize(_, _, _)
\* the loop of serialize over the slots i .. maxPhotons
photonsSerialize(photons, i, maxPhotons) ==
    IF i <= maxPhotons
      THEN photonSerialize(photons[i])
              \o photonsSerialize(photons, i + 1, maxPhotons)
      ELSE <<>>

\* the number of values ahead of the photon records
HeaderSize == 12

\* the constructor reading lastRChildNode ahead of lastInnerNode
PhotonMapFromStreamSwapped(st) ==
    LET aabb == aabbFromStream(st, 1)
        balancedFlag == st[7]
        maxPhotons == st[8]
        lastRChildNd == st[9]
        lastInnerNd == st[10]
        scale == st[11]
        photonCount == st[12]
    IN  [m_aabb |-> aabb, m_balanced |-> balancedFlag,
         m_maxPhotons |-> maxPhotons, m_lastInnerNode |-> lastInnerNd,
         m_lastRChildNode |-> lastRChildNd, m_scale |-> scale,
         m_photonCount |-> photonCount,
         m_photons |-> [i \in 0 .. maxPhotons |->
                          IF i = 0 THEN Uninit
                          ELSE photonFromStream(st, HeaderSize + 1
                                                 + PhotonSize * (i - 1))]]

\* PhotonMap(stream, manager): the map read from the stream st; slot 0 of
\* the new array is not read
PhotonMapFromStream(st) ==
    LET aabb == aabbFromStream(st, 1)
        balancedFlag == st[7]
        maxPhotons == st[8]
        lastInnerNd == st[9]
        lastRChildNd == st[10]
        scale == st[11]
        photonCount == st[12]
    IN  [m_aabb |-> aabb, m_balanced |-> balancedFlag,
         m_maxPhotons |-> maxPhotons, m_lastInnerNode |-> lastInnerNd,
         m_lastRChildNode |-> lastRChildNd, m_scale |-> scale,
         m_photonCount |-> photonCount,
         m_photons |-> [i \in 0 .. maxPhotons |->
                          IF i = 0 THEN Uninit
                          ELSE photonFromStream(st, HeaderSize + 1
                                                 + PhotonSize * (i - 1))]]

\* serialize(stream, manager), to an empty stream
serialize ==
    /\ q.pc = "idle"
    /\ stream' = aabbSerialize(m_aabb)
                    \o <<m_balanced, m_maxPhotons, m_lastInnerNode,
                         m_lastRChildNode, m_scale, m_photonCount>>
                    \o photonsSerialize(m_photons, 1, m_maxPhotons)
    /\ lastCall' = [op |-> "serialize"]
    /\ UNCHANGED <<mapVars, q, fn, t2, copy>>

\* the deserializing constructor, on the stream serialize wrote
deserialize ==
    /\ stream # <<>>
    /\ copy' = PhotonMapFromStream(stream)
    /\ lastCall' = [op |-> "PhotonMap(stream)"]
    /\ UNCHANGED <<mapVars, q, fn, t2, stream>>

\* setScale(value)
setScale(value) ==
    /\ q.pc = "idle"
    /\ m_scale' = value
    /\ lastCall' = [op |-> "setScale"]
    /\ UNCHANGED <<m_photons, m_photonCount, m_maxPhotons, m_balanced,
                   m_aabb, m_lastInnerNode, m_lastRChildNode, q, fn, others>>

\* nnSearch on the deserialized map: the photon array and the node bounds
\* as a query of the copy with the locals s reads them
copyUnwritten == copy.m_lastInnerNode = NoAxis
copyPhotons(s) ==
    IF copyUnwritten
      THEN [i \in 0 .. Max2(copy.m_maxPhotons, rightChild(s.inner)) |->
              IF i \in 1 .. copy.m_photonCount
                THEN [copy.m_photons[i] EXCEPT !.axis = s.garbage.axis]
                ELSE s.garbage]
      ELSE copy.m_photons
copyLastInner(s) == IF copyUnwritten THEN s.inner ELSE copy.m_lastInnerNode
copyLastRChild(s) == IF copyUnwritten THEN s.inner ELSE copy.m_lastRChildNode

RECURSIVE copyRun(_)
\* the loop of nnSearch on the copy
copyRun(s) ==
    IF s.index > 0
      THEN copyRun(nnIter(s, copyPhotons(s), copyLastInner(s),
                          copyLastRChild(s)))
      ELSE s

\* nnSearch(p, searchRadiusSquared, maxSize, results) on the copy, reading
\* g from unwritten memory
copySearch(p, searchRadiusSquared, maxSize, g) ==
    copyRun([garbage |-> g[1], inner |-> g[2]]
               @@ nnEntry(p, searchRadiusSquared, maxSize))

\* the scale factors handed to setScale
Scales == {1, 2}

InitSer == \E maxPhotons \in 0 .. MaxSerPhotons : PhotonMap(maxPhotons)

\* a map is built, serialized at any point of its life and read back from
\* what was just written
NextSer ==
    \/ \E s \in EstSamples :
          storePhoton(s.pos, s.normal, s.dir, s.power, s.depth)
    \/ balance
    \/ \E value \in Scales : fresh /\ setScale(value)
    \/ serialize
    \/ lastCall.op = "serialize" /\ deserialize

SpecSer == InitSer /\ [][NextSer]_vars

\* ------------------------------------------------------------------------
\* leftSubtreeSize on its own
\* ------------------------------------------------------------------------
\* the variables of the photon map, left alone here
MapIdle ==
    /\ m_maxPhotons = 0
    /\ m_photons = [i \in 0 .. 0 |-> Uninit]
    /\ m_photonCount = 0
    /\ m_balanced = FALSE
    /\ m_aabb = EmptyAABB
    /\ m_lastInnerNode = NoAxis
    /\ m_lastRChildNode = NoAxis
    /\ m_scale = 1
    /\ lastCall = [op |-> "PhotonMap", ret |-> "done"]
    /\ q = Idle
    /\ t2 = Idle
    /\ stream = <<>>
    /\ copy = NoMap

InitLST ==
    /\ MapIdle
    /\ \E n \in 1 .. MaxTreeSize :
          fn = [op |-> "leftSubtreeSize", pc |-> "loop", treeSize |-> n, p |-> 1]

\* while (2*p <= treeSize) p *= 2;
lstLoop ==
    /\ fn.op = "leftSubtreeSize" /\ fn.pc = "loop"
    /\ 2 * fn.p <= fn.treeSize
    /\ fn' = [fn EXCEPT !.p = 2 * fn.p]
    /\ UNCHANGED <<mapVars, lastCall, q, others>>

\* the rest of leftSubtreeSize, to the return
lstReturn ==
    /\ fn.op = "leftSubtreeSize" /\ fn.pc = "loop"
    /\ ~(2 * fn.p <= fn.treeSize)
    /\ fn' = [op |-> "leftSubtreeSize", pc |-> "done", treeSize |-> fn.treeSize,
              ret |-> lstResult(fn.p, fn.treeSize - fn.p + 1)]
    /\ UNCHANGED <<mapVars, lastCall, q, others>>

NextLST == lstLoop \/ lstReturn

SpecLST == InitLST /\ [][NextLST]_vars

\* ------------------------------------------------------------------------
\* guarded_partition on its own
\* ------------------------------------------------------------------------
\* what the two predicates say of an element: pred1 true, pred2 true, or
\* both false; they are never both true
Classes == {"pred1", "pred2", "neither"}

\* the elements of an array of the classes cls: the class and, to tell the
\* elements apart, the index the element starts at
Elements(cls) == [i \in DOMAIN cls |-> [class |-> cls[i], id |-> i]]

\* the elements on which pred1 is true, and those on which pred2 is
Pred1(a) == {a[i] : i \in {k \in DOMAIN a : a[k].class = "pred1"}}
Pred2(a) == {a[i] : i \in {k \in DOMAIN a : a[k].class = "pred2"}}

\* an array a[0 .. len], a range [start, end) within a[1 .. len), and
\* pred1 false on the guard a[end]
InitGP ==
    /\ MapIdle
    /\ \E len \in 1 .. MaxLen : \E cls \in [0 .. len -> Classes] :
       \E start \in 1 .. len : \E end \in start .. len :
          /\ cls[end] # "pred1"
          /\ fn = [op |-> "guarded_partition", pc |-> "call",
                   a |-> Elements(cls), start |-> start, end |-> end,
                   P1 |-> Pred1(Elements(cls)), P2 |-> Pred2(Elements(cls))]

gpCall ==
    /\ fn.op = "guarded_partition" /\ fn.pc = "call"
    /\ fn' = [fn EXCEPT !.pc = "done",
                        !.a = guarded_partition(fn.a, fn.start, fn.end,
                                                fn.P1, fn.P2).a]
               @@ [before |-> fn.a,
                   mid |-> guarded_partition(fn.a, fn.start, fn.end,
                                             fn.P1, fn.P2).mid]
    /\ UNCHANGED <<mapVars, lastCall, q, others>>

NextGP == gpCall

SpecGP == InitGP /\ [][NextGP]_vars

\* ------------------------------------------------------------------------
\* quickPartition on its own
\* ------------------------------------------------------------------------
Keys == 0 .. MaxKey

\* photons whose three coordinates order them differently: by key, by
\* reversed key, and all equal
KeyPhoton(k) == PhotonAt(<<k, MaxKey - k, 0>>)

\* photons 1 .. len behind the pointers ptrs[0 .. len], a range
\* [left, right) of pointers and a pivot in it
InitQP ==
    /\ MapIdle
    /\ \E len \in 1 .. MaxLen : \E keys \in [1 .. len -> Keys] :
       \E left \in 1 .. len : \E right \in (left + 1) .. (len + 1) :
       \E pivot \in left .. (right - 1) : \E axis \in Axes :
          fn = [op |-> "quickPartition", pc |-> "loop",
                photons |-> [i \in 0 .. len |->
                               IF i = 0 THEN Uninit ELSE KeyPhoton(keys[i])],
                st |-> qpEntry([i \in 0 .. len |-> i], left, right),
                left |-> left, right |-> right, pivot |-> pivot,
                axis |-> axis]

\* one iteration of the while loop
qpStep ==
    /\ fn.op = "quickPartition" /\ fn.pc = "loop"
    /\ qpContinue(fn.st)
    /\ fn' = [fn EXCEPT !.st = qpIter(fn.photons, fn.st, fn.pivot, fn.axis)]
    /\ UNCHANGED <<mapVars, lastCall, q, others>>

\* the return, from inside the loop or at its end
qpReturn ==
    /\ fn.op = "quickPartition" /\ fn.pc = "loop"
    /\ ~qpContinue(fn.st)
    /\ fn' = [fn EXCEPT !.pc = "done"]
    /\ UNCHANGED <<mapVars, lastCall, q, others>>

NextQP == qpStep \/ qpReturn

SpecQP == InitQP /\ [][NextQP]_vars

\* The same calls where the question is whether they return: ranges of up
\* to MaxTermLen photons with keys 0..MaxTermKey, and a thread inside
\* quickPartition takes its next step.
InitQPFair ==
    /\ MapIdle
    /\ \E len \in 1 .. MaxTermLen : \E keys \in [1 .. len -> 0 .. MaxTermKey] :
       \E left \in 1 .. len : \E right \in (left + 1) .. (len + 1) :
       \E pivot \in left .. (right - 1) : \E axis \in Axes :
          fn = [op |-> "quickPartition", pc |-> "loop",
                photons |-> [i \in 0 .. len |->
                               IF i = 0 THEN Uninit ELSE KeyPhoton(keys[i])],
                st |-> qpEntry([i \in 0 .. len |-> i], left, right),
                left |-> left, right |-> right, pivot |-> pivot,
                axis |-> axis]

SpecQPFair == InitQPFair /\ [][NextQP]_vars /\ WF_vars(NextQP)

\* ------------------------------------------------------------------------
\* Properties of nnSearch
\* ------------------------------------------------------------------------
\* an nnSearch call has returned and its results are in lastCall
Returned == lastCall.op = "nnSearch"

\* the stored photons, by index
Stored == 1 .. m_photonCount

\* squared distance of stored photon i to the query point of the last call
distOf(i) == distSquared(m_photons[i].pos, lastCall.p)

\* the stored photons within the radius of the last call, boundary included,
\* and those strictly within it
WithinRadius == {i \in Stored : distOf(i) <= lastCall.input}
StrictlyWithin == {i \in Stored : distOf(i) < lastCall.input}

\* the result slots and the photon indices the last call returned
ReturnedSlots == 0 .. (lastCall.ret - 1)
ReturnedPhotons == {lastCall.results[j].second : j \in ReturnedSlots}

\* the returned photons are count distinct stored photons with their true
\* distances, all of them in the set S, and no stored photon left out is
\* strictly closer than a returned one
ClosestOf(S, count) ==
    /\ lastCall.ret = count
    /\ Cardinality(ReturnedPhotons) = count
    /\ ReturnedPhotons \subseteq S
    /\ \A j \in ReturnedSlots :
          lastCall.results[j].first = distOf(lastCall.results[j].second)
    /\ \A i \in Stored \ ReturnedPhotons : \A j \in ReturnedPhotons :
          ~(distOf(i) < distOf(j))

\* C1 as stated, on the maps that hold at least one photon: nnSearch
\* returns the min(k, number of photons with distance <= r) closest photons.
C1_AsStated ==
    (Returned /\ m_photonCount >= 1) => ClosestOf(WithinRadius,
                          Min2(lastCall.maxSize, Cardinality(WithinRadius)))

\* C1: on every balanced map that holds at least one photon, nnSearch
\* returns the min(k, number of photons with squared distance strictly less
\* than the squared radius) closest photons, up to ties in distance: the
\* count is that minimum, every returned photon lies strictly within the
\* radius, and no stored photon strictly closer than a returned one is
\* omitted.
C1_ClosestStrictlyWithin ==
    (Returned /\ m_photonCount >= 1) =>
        ClosestOf(StrictlyWithin,
                  Min2(lastCall.maxSize, Cardinality(StrictlyWithin)))

\* a search that had to drop photons within the radius, on a tree with
\* inner nodes below the root
C1_Witness ==
    /\ Returned
    /\ m_photonCount >= 4
    /\ lastCall.maxSize >= 2
    /\ Cardinality(StrictlyWithin) > lastCall.maxSize
    /\ Cardinality(WithinRadius) > Cardinality(StrictlyWithin)
    /\ lastCall.ret = lastCall.maxSize

\* the largest squared distance among the returned photons
FarthestReturned ==
    CHOOSE d \in {distOf(i) : i \in ReturnedPhotons} :
        \A i \in ReturnedPhotons : distOf(i) <= d

\* C2 as stated: the radius written back is the squared distance of the
\* farthest returned photon when maxSize photons were returned, and the
\* input when fewer were found.
C2_AsStated ==
    (Returned /\ m_photonCount >= 1 /\ lastCall.maxSize >= 1) =>
        IF lastCall.ret = lastCall.maxSize
          THEN lastCall.searchRadiusSquared = FarthestReturned
          ELSE lastCall.searchRadiusSquared = lastCall.input

\* C2: for maxSize >= 1 on a map that holds at least one photon, the radius
\* written back is the squared distance of the farthest returned photon
\* when more than maxSize photons lie strictly within the input radius, and
\* is the input value when at most maxSize photons do, the case of exactly
\* maxSize included.
C2_RadiusWrittenBack ==
    (Returned /\ m_photonCount >= 1 /\ lastCall.maxSize >= 1) =>
        IF Cardinality(StrictlyWithin) > lastCall.maxSize
          THEN /\ lastCall.ret = lastCall.maxSize
               /\ lastCall.searchRadiusSquared = FarthestReturned
          ELSE lastCall.searchRadiusSquared = lastCall.input

\* a search that shrank the radius, and one that found exactly maxSize
C2_Witness ==
    /\ Returned
    /\ m_photonCount >= 3
    /\ lastCall.maxSize >= 2
    /\ Cardinality(StrictlyWithin) > lastCall.maxSize
    /\ lastCall.searchRadiusSquared < lastCall.input
    /\ lastCall.searchRadiusSquared > 0

\* ------------------------------------------------------------------------
\* Properties of balance
\* ------------------------------------------------------------------------
\* balance has just permuted the array; lastCall holds the array before,
\* the heap permutation and the heap indices written, in order
Balanced == lastCall.op = "balance" /\ lastCall.ret = "done"

\* how many stored photons of the array photons are at position pos
CountAt(photons, pos) ==
    Cardinality({i \in Stored : photons[i].pos = pos})

\* C3: the heap permutation of balance is a bijection on [1, n]: every heap
\* index 1..n is written exactly once by balanceRecursive and no other index
\* is written, every original index 1..n appears exactly once as a value,
\* index 0 stays mapped to 0, and the balanced array holds the same
\* multiset of photons as the array before.
C3_PermutationBijection ==
    Balanced =>
        /\ Len(lastCall.log) = m_photonCount
        /\ {lastCall.log[j] : j \in 1 .. Len(lastCall.log)} = Stored
        /\ {lastCall.perm[i] : i \in Stored} = Stored
        /\ lastCall.perm[0] = 0
        /\ m_photons[0] = lastCall.before[0]
        /\ \A pos \in Positions :
              CountAt(m_photons, pos) = CountAt(lastCall.before, pos)
        /\ \A i \in Stored : m_photons[i].pos = lastCall.before[lastCall.perm[i]].pos

\* a balance of six photons that moved photons
C3_Witness ==
    /\ Balanced
    /\ m_photonCount = 6
    /\ \E i \in Stored : lastCall.perm[i] # i
    /\ \E i, j \in Stored : m_photons[i].pos # m_photons[j].pos

\* the componentwise min/max hull of the stored positions
HullMin(a) ==
    IF Stored = {} THEN Infinity
    ELSE CHOOSE v \in {m_photons[i].pos[a] : i \in Stored} :
            \A i \in Stored : v <= m_photons[i].pos[a]
HullMax(a) ==
    IF Stored = {} THEN 0 - Infinity
    ELSE CHOOSE v \in {m_photons[i].pos[a] : i \in Stored} :
            \A i \in Stored : v >= m_photons[i].pos[a]

\* C9: in every state reached by storePhoton calls, successful or rejected,
\* and balance, aabb is the componentwise min/max hull of the positions of
\* photons 1..photonCount; balance leaves it as it was.
C9_AabbIsHull ==
    \A a \in 1 .. 3 : m_aabb.min[a] = HullMin(a) /\ m_aabb.max[a] = HullMax(a)

\* a balance of six photons, which recursed into a left and a right
\* subrange, on a box with extent on every axis
C9_Witness ==
    /\ Balanced
    /\ m_photonCount = 6
    /\ \A a \in 1 .. 3 : m_aabb.min[a] < m_aabb.max[a]

\* ------------------------------------------------------------------------
\* Properties of storePhoton
\* ------------------------------------------------------------------------
\* the step is a storePhoton call on a map that is not balanced
StoreStep == lastCall'.op = "storePhoton" /\ ~m_balanced

\* the box aabb2 is the box aabb1 expanded to include pos
ExpandedBy(aabb1, aabb2, pos) ==
    \A a \in 1 .. 3 :
        /\ aabb2.min[a] <= pos[a] /\ pos[a] <= aabb2.max[a]
        /\ aabb2.min[a] <= aabb1.min[a] /\ aabb1.max[a] <= aabb2.max[a]
        /\ aabb2.min[a] \in {aabb1.min[a], pos[a]}
        /\ aabb2.max[a] \in {aabb1.max[a], pos[a]}

\* C8: storePhoton on an unbalanced map with photonCount = maxPhotons
\* returns false and leaves photonCount, aabb and every photon slot
\* unchanged; with photonCount < maxPhotons it returns true, increments
\* photonCount by exactly one, writes the photon at the new index
\* photonCount and expands aabb to include pos.
C8_StorePhoton ==
    [][StoreStep =>
        IF m_photonCount = m_maxPhotons
          THEN /\ lastCall'.ret = FALSE
               /\ UNCHANGED <<m_photonCount, m_aabb, m_photons>>
          ELSE /\ m_photonCount < m_maxPhotons
               /\ lastCall'.ret = TRUE
               /\ m_photonCount' = m_photonCount + 1
               /\ \E pos \in Positions :
                     /\ m_photons' = [m_photons EXCEPT
                                        ![m_photonCount'] = PhotonAt(pos)]
                     /\ m_photons'[m_photonCount'] = PhotonAt(pos)
                     /\ ExpandedBy(m_aabb, m_aabb', pos)]_vars

\* a rejected store on a full map that holds photons
C8_Witness ==
    /\ lastCall.op = "storePhoton"
    /\ lastCall.ret = FALSE
    /\ m_photonCount = m_maxPhotons
    /\ m_maxPhotons >= 2
    /\ \A a \in 1 .. 3 : m_aabb.min[a] < m_aabb.max[a]

\* C10: photonCount <= maxPhotons in every reachable state, and photonCount
\* never decreases under storePhoton, balance and nnSearch.
C10_Capacity ==
    /\ [](m_photonCount <= m_maxPhotons)
    /\ [][m_photonCount' >= m_photonCount /\ m_maxPhotons' = m_maxPhotons]_vars

\* a full map after a rejected store, a balance and a search
C10_Witness ==
    /\ Returned
    /\ m_photonCount = m_maxPhotons
    /\ m_maxPhotons >= 3

\* ------------------------------------------------------------------------
\* Properties of leftSubtreeSize
\* ------------------------------------------------------------------------
\* is heap index j in the subtree rooted at heap index i
RECURSIVE InSubtree(_, _)
InSubtree(j, i) == IF j < i THEN FALSE ELSE IF j = i THEN TRUE
                   ELSE InSubtree(j \div 2, i)

\* the number of nodes of the subtree rooted at heap index i of the
\* left-balanced tree on the indices 1 .. n
HeapSubtreeSize(i, n) == Cardinality({j \in 1 .. n : InSubtree(j, i)})

\* the heap indices balanceRecursive gives to a range of size photons
\* rooted at heapIndex, by the sizes leftSubtreeSize decides
RECURSIVE HeapIndices(_, _)
HeapIndices(size, heapIndex) ==
    IF size = 0 THEN {}
    ELSE LET left == IF size = 1 THEN 0 ELSE leftSubtreeSize(size)
         IN  {heapIndex} \cup HeapIndices(left, leftChild(heapIndex))
                \cup HeapIndices((size - 1) - left, rightChild(heapIndex))

\* C4: for every tree size n > 1, leftSubtreeSize(n) is the number of nodes
\* of the subtree rooted at heap index 2 of the left-balanced tree on the
\* indices 1..n, so the subranges of balanceRecursive have the sizes of the
\* heap subtrees and the tree built is the one on the indices 1..n: every
\* level full except the last, which fills from the left.
C4_LeftSubtreeSize ==
    (fn.op = "leftSubtreeSize" /\ fn.pc = "done" /\ fn.treeSize > 1) =>
        /\ fn.ret = HeapSubtreeSize(2, fn.treeSize)
        /\ (fn.treeSize - 1) - fn.ret = HeapSubtreeSize(3, fn.treeSize)
        /\ HeapIndices(fn.treeSize, 1) = 1 .. fn.treeSize

\* a size whose last level is less than half full, and one past it
C4_Witness ==
    /\ fn.op = "leftSubtreeSize" /\ fn.pc = "done"
    /\ fn.treeSize = 36
    /\ fn.ret = 20

\* ------------------------------------------------------------------------
\* Properties of guarded_partition
\* ------------------------------------------------------------------------
GPDone == fn.op = "guarded_partition" /\ fn.pc = "done"

\* the positions of the range handed to guarded_partition
GPRange == fn.start .. (fn.end - 1)

\* the elements in the range of the array a
GPContents(a) == {a[i] : i \in GPRange}

\* C6: guarded_partition, called on a range followed by a guard on which
\* pred1 is false and with predicates that are never both true, only swaps
\* elements of [start, end), and leaves every element satisfying pred1
\* before the returned split point and every element satisfying pred2 at or
\* after it.
C6_GuardedPartition ==
    GPDone =>
        /\ \A i \in DOMAIN fn.a : i \notin GPRange => fn.a[i] = fn.before[i]
        /\ GPContents(fn.a) = GPContents(fn.before)
        /\ fn.mid \in fn.start .. fn.end
        /\ \A i \in GPRange : fn.a[i] \in fn.P1 => i < fn.mid
        /\ \A i \in GPRange : fn.a[i] \in fn.P2 => i >= fn.mid

\* a call that swapped and left an element satisfying neither predicate on
\* each side of the split point
C6_Witness ==
    /\ GPDone
    /\ fn.a # fn.before
    /\ \E i \in GPRange : i < fn.mid /\ fn.a[i] \notin (fn.P1 \cup fn.P2)
    /\ \E i \in GPRange : i >= fn.mid /\ fn.a[i] \notin (fn.P1 \cup fn.P2)
    /\ \E i \in GPRange : fn.a[i] \in fn.P1
    /\ \E i \in GPRange : fn.a[i] \in fn.P2

\* C7 as stated: the returned split point is the first index of the
\* rearranged range whose element does not satisfy pred1: every element
\* before it satisfies pred1.
C7_AsStated ==
    GPDone =>
        /\ fn.a[fn.mid] \notin fn.P1
        /\ \A i \in GPRange : i < fn.mid => fn.a[i] \in fn.P1

\* C7: the returned split point is an index of [start, end] whose element
\* (the guard, at end) does not satisfy pred1; no element before it
\* satisfies pred2 and no element of the range at or after it satisfies
\* pred1.  Elements before it may satisfy neither predicate, so it need not
\* be the first index whose element does not satisfy pred1.
C7_SplitPoint ==
    GPDone =>
        /\ fn.mid \in fn.start .. fn.end
        /\ fn.a[fn.mid] \notin fn.P1
        /\ \A i \in GPRange : i < fn.mid => fn.a[i] \notin fn.P2
        /\ \A i \in GPRange : i >= fn.mid => fn.a[i] \notin fn.P1

\* a call that returned a split point inside the range with an element
\* satisfying neither predicate before it
C7_Witness ==
    /\ GPDone
    /\ fn.mid > fn.start /\ fn.mid < fn.end
    /\ \E i \in GPRange : i < fn.mid /\ fn.a[i] \notin (fn.P1 \cup fn.P2)
    /\ \E i \in GPRange : i < fn.mid /\ fn.a[i] \in fn.P1

\* ------------------------------------------------------------------------
\* Properties of quickPartition
\* ------------------------------------------------------------------------
QPDone == fn.op = "quickPartition" /\ fn.pc = "done"

\* the positions of the range handed to quickPartition
QPRange == fn.left .. (fn.right - 1)

\* pos[axis] of the photon the pointer at position i points to
QPKey(i) == posAt(fn.photons, fn.st.ptrs[i], fn.axis)

\* C5: after quickPartition(left, right, pivot, axis) with
\* left <= pivot < right, the range [left, right) is a permutation of its
\* former contents, every element before pivot has pos[axis] <= that of the
\* pivot element and every element after it has pos[axis] >= it, so the
\* pivot element has the value a full sort along axis would put there.
C5_QuickPartition ==
    QPDone =>
        /\ \A i \in DOMAIN fn.st.ptrs : i \notin QPRange => fn.st.ptrs[i] = i
        /\ {fn.st.ptrs[i] : i \in QPRange} = QPRange
        /\ \A i \in QPRange : i < fn.pivot => QPKey(i) <= QPKey(fn.pivot)
        /\ \A i \in QPRange : i > fn.pivot => QPKey(i) >= QPKey(fn.pivot)
        /\ Cardinality({x \in QPRange :
              posAt(fn.photons, x, fn.axis) < QPKey(fn.pivot)})
             <= fn.pivot - fn.left
        /\ Cardinality({x \in QPRange :
              posAt(fn.photons, x, fn.axis) <= QPKey(fn.pivot)})
             > fn.pivot - fn.left

\* a call on four photons that moved pointers and put the pivot between a
\* smaller and a larger element
C5_Witness ==
    /\ QPDone
    /\ fn.right - fn.left >= 4
    /\ \E i \in QPRange : fn.st.ptrs[i] # i
    /\ \E i \in QPRange : i < fn.pivot /\ QPKey(i) < QPKey(fn.pivot)
    /\ \E i \in QPRange : i > fn.pivot /\ QPKey(i) > QPKey(fn.pivot)
    /\ \E i \in QPRange : i # fn.pivot /\ QPKey(i) = QPKey(fn.pivot)

\* ------------------------------------------------------------------------
\* Queries of a map balanced while empty
\* ------------------------------------------------------------------------
\* C11: every nnSearch on a balanced map that holds no photons returns a
\* zero count and adds no candidate, whatever the radius.
C11_EmptyMapQuery ==
    (Returned /\ m_photonCount = 0) =>
        /\ lastCall.ret = 0
        /\ \A j \in DOMAIN lastCall.results : lastCall.results[j] = NoResult

\* ------------------------------------------------------------------------
\* Queries of a map that is not balanced
\* ------------------------------------------------------------------------
\* the operations that query the map, and what lastCall.op is while one of
\* the two that walk the tree step by step is running
QueryOps == {"nnSearch", "estimateIrradiance", "estimateIrradianceFiltered",
             "estimateIrradianceFiltered (MTS_SSE)",
             "estimateRadianceFiltered", "estimateRadianceRaw",
             "estimateVolumeRadiance"}
RunningOps == {"nnSearch running", "estimateRadianceRaw running"}

\* C12: every query operation invoked while the balanced flag is false ends
\* in the assertion failure before any photon is traversed or any result is
\* produced: while the map is not balanced no traversal is in progress and
\* no query has returned a result.
C12_PhaseViolation ==
    ~m_balanced =>
        /\ q.pc = "idle"
        /\ lastCall.op \notin (QueryOps \cup RunningOps)

\* ------------------------------------------------------------------------
\* The query phase
\* ------------------------------------------------------------------------
\* what the call that returned the record c returns when it runs alone on
\* the map as it is, reading from unwritten memory what it read: the count,
\* the radius and the results
Alone(c) ==
    LET s == nnSearch(c.p, c.input, c.maxSize, c.mem)
    IN  [ret |-> s.fill, searchRadiusSquared |-> s.distSquared,
         results |-> s.results]

\* the same of the call as it returned
Outcome(c) == [ret |-> c.ret, searchRadiusSquared |-> c.searchRadiusSquared,
               results |-> c.results]

\* the fields of the map that the balanced map keeps
frozen == <<m_photons, m_photonCount, m_aabb, m_lastInnerNode,
            m_lastRChildNode, m_balanced>>

\* what an operation on a balanced map that holds photons ends in
QueryPhaseOps == {"AssertionFailure", "nnSearch running", "nnSearch",
                  "estimateIrradiance"}

\* C13: once balance has set the balanced flag it stays set and no later
\* operation changes the photon array, photonCount, aabb, lastInnerNode or
\* lastRChildNode; on a map that holds photons storePhoton and a second
\* balance end in an assertion failure; and an nnSearch that runs while
\* another thread queries, or calls storePhoton or balance, returns the
\* count, radius and results it returns when it runs alone.
C13_Immutable ==
    /\ [][m_balanced => UNCHANGED frozen]_vars
    /\ [][(m_balanced /\ m_photonCount > 0 /\ lastCall' # lastCall) =>
             lastCall'.op \in QueryPhaseOps]_vars
    /\ [](lastCall.op = "nnSearch" => Outcome(lastCall) = Alone(lastCall))
    /\ [](t2.pc = "returned" => Outcome(t2) = Alone(t2))

\* the second thread has returned from a query of two photons that shrank
\* its radius while a query of the first thread is under way and has found
\* a photon
C13_Witness ==
    /\ m_photonCount = 2
    /\ t2.pc = "returned"
    /\ t2.searchRadiusSquared < t2.input
    /\ q.pc = "loop"
    /\ q.fill >= 1
    /\ q.index > 0


\* ------------------------------------------------------------------------
\* The round trip through the stream
\* ------------------------------------------------------------------------
\* the deserializing constructor has just read what serialize wrote from the
\* map as it is
Deserialized == lastCall.op = "PhotonMap(stream)"

\* C14: the map read back from the stream serialize wrote has the aabb,
\* balanced flag, maxPhotons, lastInnerNode, lastRChildNode, scale,
\* photonCount and photon slots 1..maxPhotons of the serialized map, and
\* when that map is balanced every nnSearch on the copy returns the count,
\* the results and the radius it returns on the original.
C14_RoundTrip ==
    Deserialized =>
        /\ copy.m_aabb = m_aabb
        /\ copy.m_balanced = m_balanced
        /\ copy.m_maxPhotons = m_maxPhotons
        /\ copy.m_lastInnerNode = m_lastInnerNode
        /\ copy.m_lastRChildNode = m_lastRChildNode
        /\ copy.m_scale = m_scale
        /\ copy.m_photonCount = m_photonCount
        /\ \A i \in 1 .. m_maxPhotons : copy.m_photons[i] = m_photons[i]
        /\ m_balanced =>
              \A p \in QueryPoints : \A r \in 0 .. MaxRadiusSq :
              \A k \in 0 .. MaxSize :
              \A g \in Garbage :
                 LET a == copySearch(p, r, k, g)
                     b == nnSearch(p, r, k, g)
                 IN  /\ a.fill = b.fill
                     /\ a.results = b.results
                     /\ a.distSquared = b.distSquared

\* a balanced map of two photons with a scale other than 1 has been read
\* back, and a query of the copy finds both
C14_Witness ==
    /\ Deserialized
    /\ m_balanced
    /\ m_photonCount = 2
    /\ m_scale = 2
    /\ \E p \in QueryPoints :
          copySearch(p, MaxRadiusSq, MaxSize, <<Uninit, 0>>).fill = 2


\* ------------------------------------------------------------------------
\* The two builds of estimateIrradianceFiltered
\* ------------------------------------------------------------------------
FilteredOps == {"estimateIrradianceFiltered",
                "estimateIrradianceFiltered (MTS_SSE)"}

\* the photons a returned query found
Found == {found(lastCall.search)[i] :
             i \in 1 .. Len(found(lastCall.search))}

\* C15: on every balanced map (here: one that holds photons, so that every
\* photon found is a stored one) and for every query the build with MTS_SSE
\* and the scalar build of estimateIrradianceFiltered use the same found
\* photons, those perpendicular to n included, and return the same
\* spectrum: whichever build has returned from a query, the other returns
\* the same from the photons that query found.
C15_SSEEquivalence ==
    (lastCall.op \in FilteredOps /\ m_photonCount > 0) =>
        /\ {e \in Found :
               sameSide(photonOf(lastCall.search, e), lastCall.n)}
              = {e \in Found :
                    ~skipped(photonOf(lastCall.search, e), lastCall.n)}
        /\ irradianceFiltered(lastCall.search, lastCall.n)
              = irradianceFilteredSSE(lastCall.search, lastCall.n)


\* ------------------------------------------------------------------------
\* The traversal stack
\* ------------------------------------------------------------------------
\* a traversal of nnSearch or estimateRadianceRaw is between two iterations
\* or at the exit of its loop, on a balanced map that holds photons
Traversing == q.pc \in {"loop", "raw"} /\ m_balanced /\ m_photonCount >= 1

\* floor(log2 n), for n >= 1
FloorLog2(n) == CHOOSE k \in 0 .. n : 2 ^ k <= n /\ n < 2 ^ (k + 1)

\* C16: during every nnSearch and estimateRadianceRaw traversal of a
\* balanced map of n >= 1 photons, 0 <= stackPos <= 1 + floor(log2 n); the
\* sentinel 0 stays in stack[0] until the loop ends by popping it; every
\* index read and every index on the stack is in 1..n and no index is read
\* twice.
C16_StackBounds ==
    Traversing =>
        /\ Len(q.stack) \in 0 .. (1 + FloorLog2(m_photonCount))
        /\ \A i \in 1 .. Len(q.visited) :
              /\ q.visited[i] \in 1 .. m_photonCount
              /\ \A j \in 1 .. Len(q.visited) :
                    q.visited[i] = q.visited[j] => i = j
        /\ \A i \in 2 .. Len(q.stack) :
              /\ q.stack[i] \in 1 .. m_photonCount
              /\ \A j \in 1 .. Len(q.visited) : q.visited[j] # q.stack[i]
        /\ IF q.index > 0
             THEN /\ q.index \in 1 .. m_photonCount
                  /\ \A j \in 1 .. Len(q.visited) : q.visited[j] # q.index
                  /\ Len(q.stack) >= 1
                  /\ q.stack[1] = 0
             ELSE q.stack = <<>>

\* a traversal of estimateRadianceRaw on three photons has read the root
\* and holds the sentinel and one child on its stack, which is the bound
C16_Witness ==
    /\ Traversing
    /\ q.pc = "raw"
    /\ m_photonCount = 3
    /\ q.visited = <<1>>
    /\ Len(q.stack) = 1 + FloorLog2(m_photonCount)


\* ------------------------------------------------------------------------
\* The search radius
\* ------------------------------------------------------------------------
\* C17: the working radius distSquared of nnSearch never grows: it is the
\* input for as long as the heap step has not run, no iteration replaces it
\* by a larger value, no result kept is farther than it, and the
\* searchRadiusSquared written back is never greater than the input.
C17_RadiusMonotone ==
    /\ [][(q.pc = "loop" /\ q'.pc = "loop") =>
             /\ q'.distSquared <= q.distSquared
             /\ q'.input = q.input
             /\ (q'.distSquared # q.distSquared =>
                    /\ q.fill = q.maxSize
                    /\ q'.isPriorityQueue
                    /\ q'.distSquared = q'.results[0].first)]_vars
    /\ [](q.pc = "loop" =>
             /\ q.distSquared <= q.input
             /\ (~q.isPriorityQueue => q.distSquared = q.input)
             /\ \A j \in 0 .. (q.fill - 1) :
                   q.results[j].first <= q.distSquared)
    /\ [](Returned => lastCall.searchRadiusSquared <= lastCall.input)

\* a query has returned a radius smaller than its input after a traversal
\* of three photons or more
C17_Witness ==
    /\ Returned
    /\ lastCall.searchRadiusSquared < lastCall.input
    /\ Len(lastCall.visited) >= 3
    /\ lastCall.ret >= 1


\* ------------------------------------------------------------------------
\* Termination of balance
\* ------------------------------------------------------------------------
\* quickPartition is in its loop
QPLoop == fn.op = "quickPartition" /\ fn.pc = "loop"

\* the number of elements of the range the loop goes on with
QPWidth(st) == st.right - st.left

\* the photons of the range all have the same coordinate on the axis
QPAllEqual ==
    \A i \in QPRange : \A j \in QPRange :
       posAt(fn.photons, i, fn.axis) = posAt(fn.photons, j, fn.axis)

\* C18: quickPartition terminates on every range, ranges of equal
\* coordinates included: at every iteration left <= pivot <= right, an
\* iteration either finds the split point at pivot and stops or goes on
\* with a strictly smaller range, and the call returns; the pivot
\* balanceRecursive chooses in a range lies in the range, so both
\* subranges it recurses on are strictly smaller.
C18_Terminates ==
    /\ [](QPLoop => /\ fn.st.left <= fn.pivot
                    /\ fn.pivot <= fn.st.right)
    /\ [][(QPLoop /\ fn'.pc = "loop") =>
             \/ fn'.st.done /\ QPWidth(fn'.st) = QPWidth(fn.st)
             \/ /\ ~fn'.st.done
                /\ QPWidth(fn'.st) < QPWidth(fn.st)
                /\ fn'.st.left >= fn.st.left
                /\ fn'.st.right <= fn.st.right]_vars
    /\ [](QPLoop =>
             LET pivot == brPivot(fn.left, fn.right)
             IN  /\ fn.left <= pivot
                 /\ pivot < fn.right
                 /\ pivot - fn.left < fn.right - fn.left
                 /\ fn.right - (pivot + 1) < fn.right - fn.left)
    /\ <>(fn.op = "quickPartition" /\ fn.pc = "done")

\* a call on the longest range, of photons of one coordinate, has gone
\* through an iteration and goes on with two photons or more
C18_Witness ==
    /\ QPLoop
    /\ fn.right - fn.left = MaxTermLen
    /\ QPAllEqual
    /\ ~fn.st.done
    /\ QPWidth(fn.st) >= 1
    /\ QPWidth(fn.st) < (fn.right - 1) - fn.left


\* ------------------------------------------------------------------------
\* The balanced array as a k-d tree
\* ------------------------------------------------------------------------
\* the inner nodes of the tree on the heap indices 1 .. m_photonCount
InnerNodes == 1 .. (m_photonCount \div 2)

\* pos[axis] of the photon at heap index i, for the axis of the node at
\* heap index node
AlongAxisOf(node, i) == m_photons[i].pos[m_photons[node].axis + 1]

\* the box of the node at heap index i: the box of the map cut at the
\* split position of every node above i, on the side i is on
RECURSIVE NodeBox(_)
NodeBox(i) ==
    IF i = 1 THEN m_aabb
    ELSE LET parent == i \div 2
             a == m_photons[parent].axis + 1
             splitPos == m_photons[parent].pos[a]
         IN  IF i = leftChild(parent)
               THEN [NodeBox(parent) EXCEPT !.max[a] = splitPos]
               ELSE [NodeBox(parent) EXCEPT !.min[a] = splitPos]

\* C19: after balance on n >= 1 photons every inner node i <= n/2 has its
\* axis written, with the largest axis of the box of its range; no photon
\* of the subtree rooted at 2i is beyond photon i along that axis and no
\* photon of the subtree rooted at 2i+1 is before it.
C19_KdTree ==
    (m_balanced /\ m_photonCount >= 1) =>
        \A i \in InnerNodes :
           /\ m_photons[i].axis \in Axes
           /\ m_photons[i].axis = getLargestAxis(NodeBox(i))
           /\ \A j \in Stored :
                 /\ InSubtree(j, leftChild(i)) =>
                       AlongAxisOf(i, j) <= AlongAxisOf(i, i)
                 /\ InSubtree(j, rightChild(i)) =>
                       AlongAxisOf(i, j) >= AlongAxisOf(i, i)

\* six photons are balanced into a tree that splits along two axes, with a
\* photon strictly before the root on its left and one level with it on its
\* right
C19_Witness ==
    /\ Balanced
    /\ m_photonCount = 6
    /\ \E i \in InnerNodes : m_photons[i].axis # m_photons[1].axis
    /\ \E j \in Stored : InSubtree(j, 2) /\ AlongAxisOf(1, j) < AlongAxisOf(1, 1)
    /\ \E j \in Stored : InSubtree(j, 3) /\ AlongAxisOf(1, j) = AlongAxisOf(1, 1)


\* ------------------------------------------------------------------------
\* The result buffer of nnSearch
\* ------------------------------------------------------------------------
\* nnSearch is at the head of its loop or at its exit
Searching == q.pc = "loop"

\* the indices read so far, and those of them kept in results[0 .. fill)
Seen == {q.visited[i] : i \in 1 .. Len(q.visited)}
Kept == {q.results[j].second : j \in 0 .. (q.fill - 1)}

\* the squared distance of the photon read at index i to the query point
SeenDist(i) == distSquared(queryPhotons(q)[i].pos, q.p)

\* results[0 .. len) of the buffer r is a max-heap on the squared distance
IsMaxHeap(r, len) ==
    \A j \in 1 .. (len - 1) : r[(j - 1) \div 2].first >= r[j].first

\* C20: throughout nnSearch fill <= maxSize and the slots written are
\* within results[0 .. maxSize]; until a candidate arrives with
\* fill = maxSize every candidate is appended and the radius is the input;
\* from then on results[0 .. maxSize) is a max-heap on the squared distance
\* of the maxSize closest photons seen so far and the radius is
\* results[0].first.
C20_ResultBuffer ==
    /\ [](Searching =>
             /\ q.fill <= q.maxSize
             /\ DOMAIN q.results = 0 .. q.maxSize
             /\ Cardinality(Kept) = q.fill
             /\ Kept \subseteq Seen
             /\ \A j \in 0 .. (q.fill - 1) :
                   q.results[j].first = SeenDist(q.results[j].second)
             /\ IF ~q.isPriorityQueue
                  THEN /\ q.distSquared = q.input
                       /\ Kept = {i \in Seen : SeenDist(i) < q.input}
                       /\ \A j \in q.fill .. q.maxSize :
                             q.results[j] = NoResult
                  ELSE /\ q.fill = q.maxSize
                       /\ IsMaxHeap(q.results, q.maxSize)
                       /\ q.distSquared = q.results[0].first
                       /\ \A i \in Seen \ Kept : \A k \in Kept :
                             SeenDist(i) >= SeenDist(k))
    /\ [][(Searching /\ q'.pc = "loop") =>
             /\ q'.maxSize = q.maxSize
             /\ (q.isPriorityQueue => q'.isPriorityQueue)
             /\ (q.fill < q.maxSize =>
                    /\ ~q'.isPriorityQueue
                    /\ q'.distSquared = q.distSquared
                    /\ \A j \in 0 .. (q.fill - 1) : q'.results[j] = q.results[j]
                    /\ \/ q'.fill = q.fill /\ q'.results = q.results
                       \/ /\ q'.fill = q.fill + 1
                          /\ q'.results[q.fill].second = q.index)
             /\ ((q'.isPriorityQueue /\ ~q.isPriorityQueue) =>
                    q.fill = q.maxSize)]_vars

\* the buffer of a query for two photons is a heap that has dropped a
\* photon and holds two photons at different distances
C20_Witness ==
    /\ Searching
    /\ q.isPriorityQueue
    /\ q.maxSize = 2
    /\ Cardinality(Seen) >= 4
    /\ q.results[0].first > q.results[1].first
    /\ \E i \in Seen \ Kept : SeenDist(i) > q.results[0].first

====
